---- MODULE Spec2Model ----
(***************************************************************************)
(* The multi-turn tool-invocation loop of src/app.py: main() sends the     *)
(* user's question to the chat session, inspects each model response for   *)
(* function calls, runs every valid call through run_cypher_query, sends   *)
(* the function responses back, and renders the answer when the loop ends. *)
(* The model (Gemini) and the data source (Neo4j) are the environment:     *)
(* every response the model may return and every point at which the        *)
(* executor may fail is a nondeterministic choice.                         *)
(***************************************************************************)
EXTENDS Integers, Sequences, FiniteSets, TLC

VARIABLES
    pc,                 \* position in main() / run_cypher_query()
    response,           \* main: response
    function_calls,     \* main: function_calls
    fi,                 \* main: position of the for loop over function_calls
    function_responses, \* main: function_responses
    step_content,       \* main: step_content
    final_answer_text,  \* main: final_answer_text
    steps_shown,        \* the st.markdown calls made inside process_steps for this response
    answers_shown,      \* the st.markdown calls made inside answer_container
    errors_shown,       \* the st.error calls
    exc,                \* the exception in flight / caught: e
    sends,              \* number of chat.send_message calls made
    send_failed,        \* a chat.send_message call has raised
    exec_log,           \* queries handed to run_cypher_query for this response
    error_sent,         \* a message sent to the session carried an error payload
    tool_rounds,        \* responses received that held a valid tool call
    calls_owed,         \* valid tool calls received minus run_cypher_query calls made
    query,              \* run_cypher_query: query
    retval,             \* run_cypher_query: the value being returned
    drivers,            \* open Neo4j drivers
    sessions            \* open Neo4j sessions

vars == <<pc, response, function_calls, fi, function_responses, step_content,
          final_answer_text, steps_shown, answers_shown, errors_shown, exc,
          sends, send_failed, exec_log, error_sent, tool_rounds, calls_owed,
          query, retval, drivers, sessions>>

-----------------------------------------------------------------------------
(* Bounds of the exploration *)

MaxSends == 3       \* chat.send_message calls explored for one question
MaxParts == 2       \* parts in one model response

-----------------------------------------------------------------------------
(* Values *)

\* Text is a sequence of characters; " " stands for any whitespace.
Chars == {"a", " "}
NoText == <<>>

ToolName == "run_cypher_query"
OtherTool == "other_tool"
Queries == {"q1", "q2"}

\* func_call.args: a mapping; it may or may not have the key "query".
ArgsWithQuery == {[k \in {"query"} |-> q] : q \in Queries}
ArgsWithoutQuery == {[k \in {"limit"} |-> "q1"]}

\* A part of content.parts: part.text (NoText when None or "") and
\* part.function_call (<<>> when None, else a sequence of one call).
Part(t, c) == [text |-> t, function_call |-> c]
FunctionCall(n, a) == [name |-> n, args |-> a]

TextParts == {Part(<<ch>>, <<>>) : ch \in Chars}
ToolCallParts ==
    {Part(NoText, <<FunctionCall(ToolName, a)>>) : a \in ArgsWithQuery}
    \cup {Part(NoText, <<FunctionCall(ToolName, a)>>) : a \in ArgsWithoutQuery}
    \cup {Part(NoText, <<FunctionCall(OtherTool, a)>>) : a \in ArgsWithQuery}
Parts == TextParts \cup ToolCallParts

RECURSIVE SeqsUpTo(_, _)
SeqsUpTo(S, n) ==
    IF n = 0 THEN {<<>>}
    ELSE LET shorter == SeqsUpTo(S, n - 1)
         IN  shorter \cup {Append(s, x) : s \in {t \in shorter : Len(t) = n - 1}, x \in S}

\* A response: no candidates attribute, candidates None or [], a first
\* candidate whose content is None, or a first candidate with content.parts.
Resp(k, p) == [kind |-> k, parts |-> p]
NoResponse == Resp("unset", <<>>)
Responses ==
    {Resp(k, <<>>) : k \in {"absent", "nocandidates", "nocontent"}}
    \cup {Resp("parts", p) : p \in SeqsUpTo(Parts, MaxParts)}

-----------------------------------------------------------------------------
(* Pure helpers of main() *)

IsSpace(ch) == ch = " "

\* str.strip(): drop leading and trailing whitespace.
RECURSIVE LStrip(_)
LStrip(t) == IF t # <<>> /\ IsSpace(Head(t)) THEN LStrip(Tail(t)) ELSE t

RECURSIVE RStrip(_)
RStrip(t) ==
    IF t # <<>> /\ IsSpace(t[Len(t)]) THEN RStrip(SubSeq(t, 1, Len(t) - 1)) ELSE t

Strip(t) == RStrip(LStrip(t))

\* `if text.strip():` -- the text has a character that is not whitespace.
NonBlankWrong(t) == t # <<>>
NonBlank(t) == Strip(t) # <<>>

\* "".join(part.text for part in parts if hasattr(part, "text") and part.text)
RECURSIVE JoinTexts(_)
JoinTexts(parts) ==
    IF parts = <<>> THEN <<>>
    ELSE (IF Head(parts).text # NoText THEN Head(parts).text ELSE <<>>)
         \o JoinTexts(Tail(parts))

\* the for loop that appends part.function_call to function_calls
RECURSIVE CollectFunctionCalls(_)
CollectFunctionCalls(parts) ==
    IF parts = <<>> THEN <<>>
    ELSE Head(parts).function_call \o CollectFunctionCalls(Tail(parts))

\* "\n\n".join(step_content)
JoinStepsAfterClear(steps) == <<>>
RECURSIVE JoinSteps(_)
JoinSteps(steps) ==
    IF steps = <<>> THEN <<>>
    ELSE IF Len(steps) = 1 THEN Head(steps)
    ELSE Head(steps) \o <<"\n", "\n">> \o JoinSteps(Tail(steps))

\* `function_name == "run_cypher_query" and "query" in args`
ValidCallAnyName(c) == "query" \in DOMAIN c.args
ValidCall(c) == c.name = ToolName /\ "query" \in DOMAIN c.args

\* `not hasattr(response, "candidates") or not response.candidates or
\*  not response.candidates[0].content.parts` evaluates to True
LoopGuardBreaks(r) ==
    \/ r.kind \in {"absent", "nocandidates"}
    \/ r.kind = "parts" /\ r.parts = <<>>

\* ... or raises: candidates[0].content is None and has no attribute parts
LoopGuardRaises(r) == r.kind = "nocontent"

\* `if function_responses:`
ShouldSendAlways(fr) == TRUE
ShouldSendOnData(fr) == \E k \in 1..Len(fr) : fr[k].response.results.kind # "error"
ShouldSend(fr) == fr # <<>>

\* str(e) of the exception caught in run_cypher_query; main never reads it
ErrorText == "str(e)"

\* json.dumps(result_list, indent=2) and json.dumps({"error": str(e)})
DumpRecords(q) == [kind |-> "records", of |-> q]
DumpError(msg) == [kind |-> "error", of |-> msg]
NoValue == [kind |-> "none", of |-> "none"]
IsError(data) == data.kind = "error"

\* Part.from_function_response(name=function_name, response={"results": data})
FunctionResponse(n, data) == [name |-> n, response |-> [results |-> data]]

\* f"An error occurred: {str(e)}"
ErrorMessage(e) == <<"An error occurred: ", e>>

-----------------------------------------------------------------------------
Init ==
    /\ pc = "start"
    /\ response = NoResponse
    /\ function_calls = <<>>
    /\ fi = 1
    /\ function_responses = <<>>
    /\ step_content = <<>>
    /\ final_answer_text = <<>>
    /\ steps_shown = <<>>
    /\ answers_shown = <<>>
    /\ errors_shown = <<>>
    /\ exc = "none"
    /\ sends = 0
    /\ send_failed = FALSE
    /\ exec_log = <<>>
    /\ error_sent = FALSE
    /\ tool_rounds = 0
    /\ calls_owed = 0
    /\ query = "none"
    /\ retval = NoValue
    /\ drivers = 0
    /\ sessions = 0

executor_vars == <<query, retval, drivers, sessions>>
output_vars == <<answers_shown, errors_shown>>
count_vars == <<tool_rounds, calls_owed>>

\* the parts of a response that are a call of the registered tool with a query
RECURSIVE ValidPartCount(_)
ValidPartCount(parts) ==
    IF parts = <<>> THEN 0
    ELSE (IF /\ Head(parts).function_call # <<>>
             /\ Head(parts).function_call[1].name = ToolName
             /\ "query" \in DOMAIN Head(parts).function_call[1].args
          THEN 1 ELSE 0) + ValidPartCount(Tail(parts))

\* `step_content = []` after the narration was displayed
AfterFlushKept(steps) == steps
AfterFlush(steps) == <<>>

\* One pass of the while loop from its top to the for loop over
\* function_calls, on the response r that chat.send_message just returned.
Inspect(r) ==
    /\ response' = r
    /\ exec_log' = <<>>
    /\ tool_rounds' = tool_rounds + (IF ValidPartCount(r.parts) > 0 THEN 1 ELSE 0)
    /\ calls_owed' = calls_owed + ValidPartCount(r.parts)
    /\ IF LoopGuardRaises(r) THEN
            /\ pc' = "except"
            /\ exc' = "AttributeError"
            /\ steps_shown' = <<>>
            /\ UNCHANGED <<function_calls, fi, function_responses, step_content,
                           final_answer_text>>
       ELSE IF LoopGuardBreaks(r) THEN
            /\ pc' = "post"
            /\ steps_shown' = <<>>
            /\ UNCHANGED <<exc, function_calls, fi, function_responses,
                           step_content, final_answer_text>>
       ELSE LET calls == CollectFunctionCalls(r.parts)
                text == JoinTexts(r.parts)
            IN  /\ function_calls' = calls
                /\ exc' = exc
                /\ IF calls = <<>> THEN
                        /\ final_answer_text' =
                               IF NonBlank(text) THEN text ELSE final_answer_text
                        /\ pc' = "post"
                        /\ steps_shown' = <<>>
                        /\ UNCHANGED <<fi, function_responses, step_content>>
                   ELSE
                        /\ function_responses' = <<>>
                        /\ IF NonBlank(text) THEN
                                /\ steps_shown' =
                                       <<JoinSteps(Append(step_content, text))>>
                                /\ step_content' = AfterFlush(Append(step_content, text))
                           ELSE
                                /\ steps_shown' = <<>>
                                /\ UNCHANGED step_content
                        /\ fi' = 1
                        /\ pc' = "dispatch"
                        /\ UNCHANGED final_answer_text

\* chat.send_message raises: the exception leaves the try block.
SendRaisesSwallowed ==
    /\ exc' = "ModelCommunicationError"
    /\ send_failed' = TRUE
    /\ sends' = sends + 1
    /\ pc' = "post"
    /\ UNCHANGED <<response, function_calls, fi, function_responses,
                   step_content, final_answer_text, steps_shown, exec_log,
                   count_vars>>
SendRaises ==
    /\ exc' = "ModelCommunicationError"
    /\ send_failed' = TRUE
    /\ sends' = sends + 1
    /\ pc' = "except"
    /\ UNCHANGED <<response, function_calls, fi, function_responses,
                   step_content, final_answer_text, steps_shown, exec_log,
                   count_vars>>

\* response = chat.send_message(user_query), then the first pass of the loop
InitialSend ==
    /\ pc = "start"
    /\ \/ /\ \E r \in Responses : Inspect(r)
          /\ sends' = sends + 1
          /\ UNCHANGED send_failed
       \/ SendRaises
    /\ UNCHANGED <<executor_vars, output_vars, error_sent>>

AtForEnd == pc = "dispatch" /\ fi > Len(function_calls)
AtForBody == pc = "dispatch" /\ fi <= Len(function_calls)

\* the body of `for func_call in function_calls:` up to the executor call
DispatchCall ==
    /\ AtForBody
    /\ LET func_call == function_calls[fi]
       IN  IF ValidCall(func_call) THEN
                /\ query' = func_call.args["query"]
                /\ exec_log' = Append(exec_log, func_call.args["query"])
                /\ retval' = NoValue
                /\ calls_owed' = calls_owed - 1
                /\ pc' = "exec_driver"
                /\ UNCHANGED fi
           ELSE
                /\ fi' = fi + 1
                /\ UNCHANGED <<pc, query, exec_log, retval, calls_owed>>
    /\ UNCHANGED <<response, function_calls, function_responses, step_content,
                   final_answer_text, steps_shown, output_vars, exc, sends,
                   send_failed, drivers, sessions, error_sent, tool_rounds>>

\* `if function_responses: response = chat.send_message(function_responses)`,
\* then the next pass of the loop
SendFunctionResponses ==
    /\ AtForEnd
    /\ ShouldSend(function_responses)
    /\ sends < MaxSends
    /\ \/ /\ \E r \in Responses : Inspect(r)
          /\ sends' = sends + 1
          /\ UNCHANGED send_failed
       \/ SendRaises
    /\ error_sent' =
           (error_sent \/ \E k \in 1..Len(function_responses) :
                             IsError(function_responses[k].response.results))
    /\ UNCHANGED <<executor_vars, output_vars>>

\* `else: break`
BreakNoResponses ==
    /\ AtForEnd
    /\ ~ShouldSend(function_responses)
    /\ pc' = "post"
    /\ UNCHANGED <<response, function_calls, fi, function_responses, step_content,
                   final_answer_text, steps_shown, output_vars, exc, sends,
                   send_failed, exec_log, executor_vars, error_sent, count_vars>>

-----------------------------------------------------------------------------
(* run_cypher_query(query, ...) *)

main_vars == <<response, function_calls, step_content, final_answer_text,
               steps_shown, output_vars, sends, send_failed, exec_log,
               error_sent, count_vars, query>>

\* driver = GraphDatabase.driver(...), before the try block: a failure here
\* (a URI the driver rejects) propagates to the caller.
ExecDriver ==
    /\ pc = "exec_driver"
    /\ \/ /\ drivers' = drivers + 1
          /\ pc' = "exec_session"
          /\ UNCHANGED exc
       \/ /\ exc' = "ConfigurationError"
          /\ pc' = "except"
          /\ UNCHANGED drivers
    /\ UNCHANGED <<main_vars, fi, function_responses, retval, sessions>>

\* `with driver.session() as session:` -- entering the block
ExecSession ==
    /\ pc = "exec_session"
    /\ \/ /\ sessions' = sessions + 1
          /\ pc' = "exec_run"
          /\ UNCHANGED retval
       \/ /\ retval' = DumpError(ErrorText)
          /\ pc' = "exec_except"
          /\ UNCHANGED sessions
    /\ UNCHANGED <<main_vars, fi, function_responses, exc, drivers>>

\* session.run(query) and the conversion of the records; leaving the
\* with block closes the session on both paths.
ExecRun ==
    /\ pc = "exec_run"
    /\ sessions' = sessions - 1
    /\ \/ pc' = "exec_dumps" /\ UNCHANGED retval
       \/ pc' = "exec_except" /\ retval' = DumpError(ErrorText)
    /\ UNCHANGED <<main_vars, fi, function_responses, exc, drivers>>

\* return json.dumps(result_list, indent=2), which may raise TypeError
ExecDumps ==
    /\ pc = "exec_dumps"
    /\ \/ pc' = "exec_finally" /\ retval' = DumpRecords(query)
       \/ pc' = "exec_except" /\ retval' = DumpError(ErrorText)
    /\ UNCHANGED <<main_vars, fi, function_responses, exc, drivers, sessions>>

\* except Exception as e: return json.dumps({"error": str(e)})
ExecExceptLeak ==
    /\ pc = "exec_except"
    /\ pc' = "dispatch"
    /\ function_responses' =
           Append(function_responses, FunctionResponse(function_calls[fi].name, retval))
    /\ fi' = fi + 1
    /\ UNCHANGED <<main_vars, exc, drivers, sessions, retval>>
ExecExcept ==
    /\ pc = "exec_except"
    /\ pc' = "exec_finally"
    /\ UNCHANGED <<main_vars, fi, function_responses, exc, drivers, sessions, retval>>

\* finally: driver.close(); then, back in main, data is wrapped and appended
\* to function_responses and the for loop moves on.
ExecFinallyPrepend ==
    /\ pc = "exec_finally"
    /\ drivers' = drivers - 1
    /\ function_responses' =
           <<FunctionResponse(function_calls[fi].name, retval)>> \o function_responses
    /\ fi' = fi + 1
    /\ pc' = "dispatch"
    /\ UNCHANGED <<main_vars, exc, sessions, retval>>
ExecFinally ==
    /\ pc = "exec_finally"
    /\ drivers' = drivers - 1
    /\ function_responses' =
           Append(function_responses, FunctionResponse(function_calls[fi].name, retval))
    /\ fi' = fi + 1
    /\ pc' = "dispatch"
    /\ UNCHANGED <<main_vars, exc, sessions, retval>>

-----------------------------------------------------------------------------
(* After the loop *)

\* the re-extraction of the last response's text after the loop
PostLoopStripped ==
    /\ pc = "post"
    /\ IF response.kind = "parts" /\ response.parts # <<>>
          /\ NonBlank(JoinTexts(response.parts))
       THEN final_answer_text' = Strip(JoinTexts(response.parts))
       ELSE UNCHANGED final_answer_text
    /\ pc' = "render"
    /\ UNCHANGED <<response, function_calls, fi, function_responses, step_content,
                   steps_shown, output_vars, exc, sends, send_failed, exec_log,
                   executor_vars, error_sent, count_vars>>
PostLoop ==
    /\ pc = "post"
    /\ IF response.kind = "parts" /\ response.parts # <<>>
          /\ NonBlank(JoinTexts(response.parts))
       THEN final_answer_text' = JoinTexts(response.parts)
       ELSE UNCHANGED final_answer_text
    /\ pc' = "render"
    /\ UNCHANGED <<response, function_calls, fi, function_responses, step_content,
                   steps_shown, output_vars, exc, sends, send_failed, exec_log,
                   executor_vars, error_sent, count_vars>>

\* with answer_container: st.subheader("Answer"); st.markdown(final_answer_text)
Render ==
    /\ pc = "render"
    /\ answers_shown' = Append(answers_shown, final_answer_text)
    /\ pc' = "done"
    /\ UNCHANGED <<response, function_calls, fi, function_responses, step_content,
                   final_answer_text, steps_shown, errors_shown, exc, sends,
                   send_failed, exec_log, executor_vars, error_sent, count_vars>>

\* except Exception as e: st.error(f"An error occurred: {str(e)}")
HandleException ==
    /\ pc = "except"
    /\ errors_shown' = Append(errors_shown, ErrorMessage(exc))
    /\ pc' = "done"
    /\ UNCHANGED <<response, function_calls, fi, function_responses, step_content,
                   final_answer_text, steps_shown, answers_shown, exc, sends,
                   send_failed, exec_log, executor_vars, error_sent, count_vars>>

Next ==
    \/ InitialSend
    \/ DispatchCall
    \/ SendFunctionResponses
    \/ BreakNoResponses
    \/ ExecDriver
    \/ ExecSession
    \/ ExecRun
    \/ ExecDumps
    \/ ExecExcept
    \/ ExecFinally
    \/ PostLoop
    \/ Render
    \/ HandleException

Spec == Init /\ [][Next]_vars

\* main runs its statements one after the other: an enabled step is taken.
FairSpec == Spec /\ WF_vars(Next)

-----------------------------------------------------------------------------
TypeOK ==
    /\ pc \in {"start", "dispatch", "exec_driver", "exec_session", "exec_run",
               "exec_dumps", "exec_except", "exec_finally", "post", "render",
               "except", "done"}
    /\ response \in Responses \cup {NoResponse}
    /\ sends \in 0..MaxSends
    /\ drivers \in 0..1
    /\ sessions \in 0..1
    /\ fi \in 1..(MaxParts + 1)
    /\ pc = "dispatch" => fi \in 1..(Len(function_calls) + 1)
    /\ pc = "dispatch" => Len(function_responses) < fi

-----------------------------------------------------------------------------
(* Vocabulary of the properties, stated on the response itself *)

\* the loop has been left normally (after `break`)
LoopExited == pc \in {"post", "render", "done"}
InExecutor == pc \in {"exec_driver", "exec_session", "exec_run", "exec_dumps",
                      "exec_except", "exec_finally"}

IsToolCallPart(p) == p.function_call # <<>>
IsValidToolCallPart(p) ==
    /\ IsToolCallPart(p)
    /\ p.function_call[1].name = ToolName
    /\ "query" \in DOMAIN p.function_call[1].args

HasParts(r) == r.kind = "parts" /\ r.parts # <<>>
Malformed(r) ==
    \/ r.kind \in {"absent", "nocandidates", "nocontent"}
    \/ r.kind = "parts" /\ r.parts = <<>>
ZeroToolCalls(r) ==
    HasParts(r) /\ \A k \in 1..Len(r.parts) : ~IsToolCallPart(r.parts[k])
HasToolCalls(r) ==
    HasParts(r) /\ \E k \in 1..Len(r.parts) : IsToolCallPart(r.parts[k])
HasViolation(r) ==
    HasParts(r) /\ \E k \in 1..Len(r.parts) :
        IsToolCallPart(r.parts[k]) /\ ~IsValidToolCallPart(r.parts[k])
NoValidToolCall(r) ==
    HasToolCalls(r) /\ \A k \in 1..Len(r.parts) : ~IsValidToolCallPart(r.parts[k])

\* the text of the TextParts of r, in part order
RECURSIVE ConcatTextParts(_)
ConcatTextParts(parts) ==
    IF parts = <<>> THEN <<>>
    ELSE ConcatTextParts(SubSeq(parts, 1, Len(parts) - 1)) \o parts[Len(parts)].text

\* the queries of the valid ToolCallParts of r, in part order
RECURSIVE ValidQueries(_)
ValidQueries(parts) ==
    IF parts = <<>> THEN <<>>
    ELSE LET front == ValidQueries(SubSeq(parts, 1, Len(parts) - 1))
             last == parts[Len(parts)]
         IN  IF IsValidToolCallPart(last)
             THEN Append(front, last.function_call[1].args["query"])
             ELSE front

IsPrefix(s, t) == Len(s) <= Len(t) /\ s = SubSeq(t, 1, Len(s))
HasNonSpace(t) == \E k \in 1..Len(t) : t[k] # " "
HasErrorPayload(fr) == \E k \in 1..Len(fr) : fr[k].response.results.kind = "error"

\* a step that calls chat.send_message / run_cypher_query
SendStep == sends' # sends
ExecutorCallStep == pc # "exec_driver" /\ pc' = "exec_driver"

-----------------------------------------------------------------------------
(* C1 -- as written: a response with at least one part and zero ToolCallParts
   ends the loop in that inspection step, with no Executor call and no
   further Session send, and the final answer equals the concatenation, in
   part order, of the response's TextParts. *)
C1_TerminalAnswerIsConcatenation ==
    /\ [](ZeroToolCalls(response) =>
            /\ LoopExited
            /\ exec_log = <<>>
            /\ final_answer_text = ConcatTextParts(response.parts))
    /\ [][ZeroToolCalls(response) => ~SendStep /\ ~ExecutorCallStep]_vars

(* C1 -- amended: the same, but the final answer equals the concatenation
   only when it has a character that is not whitespace; otherwise the final
   answer is the empty string. *)
C1_TerminalAnswerIsNonBlankConcatenation ==
    /\ [](ZeroToolCalls(response) =>
            /\ LoopExited
            /\ exec_log = <<>>
            /\ final_answer_text =
                   IF HasNonSpace(ConcatTextParts(response.parts))
                   THEN ConcatTextParts(response.parts)
                   ELSE <<>>)
    /\ [][ZeroToolCalls(response) => ~SendStep /\ ~ExecutorCallStep]_vars

\* a two-part text answer that starts with whitespace has been rendered unchanged
C1_Witness ==
    /\ pc = "done"
    /\ ZeroToolCalls(response)
    /\ ConcatTextParts(response.parts) = <<" ", "a">>
    /\ answers_shown = << <<" ", "a">> >>
    /\ sends = 1

(* C2 -- for a response with one or more ToolCallParts the Executor is called
   once per valid ToolCallPart, in part order, and for no invalid part: the
   queries executed so far are always a prefix of the valid parts' queries,
   and when the for loop is over and at every following Session send they
   are all of them, each call having returned its function response. *)
C2_OneExecutorCallPerValidPart ==
    /\ [](HasToolCalls(response) /\ (pc = "dispatch" \/ InExecutor) =>
            /\ IsPrefix(exec_log, ValidQueries(response.parts))
            /\ (AtForEnd =>
                   /\ exec_log = ValidQueries(response.parts)
                   /\ Len(function_responses) = Len(exec_log)))
    /\ [][ExecutorCallStep => Len(exec_log') = Len(exec_log) + 1]_vars
    /\ [][SendStep /\ sends >= 1 =>
            /\ pc = "dispatch"
            /\ exec_log = ValidQueries(response.parts)
            /\ Len(function_responses) = Len(exec_log)]_vars

\* in a later round two valid calls have been executed, in part order
C2_Witness ==
    /\ sends = 2
    /\ AtForEnd
    /\ exec_log = <<"q2", "q1">>
    /\ Len(function_responses) = 2

(* C3 -- the number of Session sends for one question is bounded by the
   configured round-trip cap: the loop never makes more than RoundTripCap
   tool round-trips after the initial send. *)
RoundTripCap == MaxSends - 2
C3_RoundTripsCapped == sends - 1 <= RoundTripCap

(* C4 -- a malformed response (no candidates attribute, no candidates, a
   first candidate without content, or no parts) ends the loop without an
   exception: nothing is reported as an error and the answer section is
   rendered. *)
C4_MalformedResponseEndsQuietly ==
    Malformed(response) =>
        /\ LoopExited
        /\ exc = "none"
        /\ errors_shown = <<>>
        /\ (pc = "done" => answers_shown = <<final_answer_text>>)

(* C5 -- after a response that contains a ToolCallPart naming an
   unregistered tool or lacking `query`, no further Session send is made. *)
C5_ViolationEndsLoop == [][HasViolation(response) => ~SendStep]_vars

(* C6 -- a response whose ToolCallParts are all invalid ends the loop in
   that iteration: no Executor call, no Session send (in particular none
   with an empty message), and the loop is left. *)
C6_NoValidCallEndsLoop ==
    /\ [](NoValidToolCall(response) =>
            /\ exec_log = <<>>
            /\ ~InExecutor
            /\ function_responses = <<>>
            /\ pc \in {"dispatch", "post", "render", "done"})
    /\ [][NoValidToolCall(response) => ~SendStep /\ ~ExecutorCallStep]_vars
    /\ [][NoValidToolCall(response) /\ AtForEnd => pc' = "post"]_vars

\* two invalid calls were skipped and the answer section rendered
C6_Witness ==
    /\ pc = "done"
    /\ NoValidToolCall(response)
    /\ Len(function_calls) = 2
    /\ function_calls[1].name # function_calls[2].name
    /\ sends = 1
    /\ Len(answers_shown) = 1

(* C7 -- a failed Session send is fatal and not retried: after it there is
   no Session send and no Executor call, exactly one error is shown once
   the handler has run, and no answer is rendered. *)
C7_SendFailureIsFatal ==
    /\ [](send_failed =>
            /\ pc \in {"except", "done"}
            /\ answers_shown = <<>>
            /\ (pc = "done" => Len(errors_shown) = 1))
    /\ [][send_failed => ~SendStep /\ ~ExecutorCallStep /\ send_failed']_vars

\* the send of a tool result failed and the error was reported
C7_Witness ==
    /\ pc = "done"
    /\ send_failed
    /\ sends = 2
    /\ function_responses # <<>>
    /\ errors_shown = <<ErrorMessage("ModelCommunicationError")>>

(* C8 -- run_cypher_query never propagates a fault: whatever fails inside a
   call, the call returns a serialized record list or {error: message} and
   main never handles an exception raised by the Executor. *)
C8_ExecutorNeverPropagates ==
    /\ (pc = "exec_finally" => retval.kind \in {"records", "error"})
    /\ (pc \in {"except", "done"} => exc \notin {"ConfigurationError"})

(* C9 -- an Executor call that returns an error payload does not end the
   loop: the payload is wrapped and appended like any result, and when the
   for loop is over with an error payload among the results the next step
   is the Session send. *)
C9_ErrorResultIsSentBack ==
    /\ [][pc = "exec_finally" /\ IsError(retval) =>
            /\ function_responses' =
                   Append(function_responses, FunctionResponse(ToolName, retval))
            /\ pc' = "dispatch"]_vars
    /\ [][AtForEnd /\ HasErrorPayload(function_responses) =>
            sends' = sends + 1]_vars

\* an error was sent back, the model called the tool again, then answered
C9_Witness ==
    /\ pc = "done"
    /\ error_sent
    /\ sends = 3
    /\ ~HasErrorPayload(function_responses)
    /\ Len(function_responses) = 1
    /\ ZeroToolCalls(response)
    /\ answers_shown = << <<"a">> >>

(* C10 -- outside an Executor call no driver and no session is open, and
   inside one at most one of each: every exit path of run_cypher_query
   closes what it opened. *)
C10_NoConnectionLeak ==
    /\ drivers \in 0..1
    /\ sessions \in 0..1
    /\ (~InExecutor => drivers = 0 /\ sessions = 0)

\* a call whose query failed has returned, a second call is over, all closed
C10_Witness ==
    /\ AtForEnd
    /\ Len(function_responses) = 2
    /\ IsError(function_responses[1].response.results)
    /\ ~IsError(function_responses[2].response.results)
    /\ drivers = 0
    /\ sessions = 0

-----------------------------------------------------------------------------
\* the function calls of the valid ToolCallParts of r, in part order
RECURSIVE ValidCallsOf(_)
ValidCallsOf(parts) ==
    IF parts = <<>> THEN <<>>
    ELSE LET front == ValidCallsOf(SubSeq(parts, 1, Len(parts) - 1))
             last == parts[Len(parts)]
         IN  IF IsValidToolCallPart(last)
             THEN Append(front, last.function_call[1])
             ELSE front

RECURSIVE ToolCallCount(_)
ToolCallCount(parts) ==
    IF parts = <<>> THEN 0
    ELSE (IF IsToolCallPart(Head(parts)) THEN 1 ELSE 0) + ToolCallCount(Tail(parts))

\* the k-th function response answers call c: same tool name, and a payload
\* that is the records of c's query or an error
Answers(fr, c) ==
    /\ fr.name = c.name
    /\ \/ fr.response.results = [kind |-> "records", of |-> c.args["query"]]
       \/ fr.response.results.kind = "error"

Narration(r) == ConcatTextParts(r.parts)
HasNarration(r) == HasToolCalls(r) /\ HasNonSpace(Narration(r))

(* C11 -- the k-th function response collected for a response answers its
   k-th valid ToolCallPart: it carries that call's tool name and the
   Executor's result for that call's query; and the message of every
   Session send after the first is made of exactly these. *)
C11_ResultsMatchCalls ==
    /\ [](HasToolCalls(response) /\ (pc = "dispatch" \/ InExecutor) =>
            /\ Len(function_responses) <= Len(ValidCallsOf(response.parts))
            /\ \A k \in 1..Len(function_responses) :
                   Answers(function_responses[k], ValidCallsOf(response.parts)[k]))
    /\ [][SendStep /\ sends >= 1 =>
            /\ Len(function_responses) = Len(ValidCallsOf(response.parts))
            /\ \A k \in 1..Len(function_responses) :
                   Answers(function_responses[k], ValidCallsOf(response.parts)[k])]_vars

\* the records of q2 then of q1 were collected for the calls q2, q1 and sent
C11_Witness ==
    /\ sends = 2
    /\ function_responses =
           <<FunctionResponse(ToolName, DumpRecords("q2")),
             FunctionResponse(ToolName, DumpRecords("q1"))>>
    /\ pc = "post"

(* C12 -- when the loop ends without terminal text, what the answer section
   receives is not the bare empty string: an empty final answer is never
   rendered as the answer. *)
C12_EmptyAnswerIsSignalled ==
    \A k \in 1..Len(answers_shown) : answers_shown[k] # <<>>

(* C13 -- the non-blank narration of a tool-calling response has been
   displayed, as it is, whenever one of that response's calls is dispatched
   or executing and when the for loop is over, hence before the next send. *)
C13_NarrationFlushedBeforeDispatch ==
    HasNarration(response) /\ (pc = "dispatch" \/ InExecutor) =>
        steps_shown = <<Narration(response)>>

\* the narration of a later response is on display while its call executes
C13_Witness ==
    /\ sends = 2
    /\ pc = "exec_run"
    /\ Narration(response) = <<"a">>
    /\ steps_shown = << <<"a">> >>

(* C14 -- every fatal path shows exactly one error message, and that
   message does not contain the text of the internal exception. *)
RawExceptionTexts == {"ModelCommunicationError", "AttributeError", "ConfigurationError"}
C14_ErrorMessageHidesException ==
    /\ Len(errors_shown) <= 1
    /\ (pc = "done" /\ exc # "none" => Len(errors_shown) = 1)
    /\ \A k \in 1..Len(errors_shown) : \A j \in 1..Len(errors_shown[k]) :
           errors_shown[k][j] \notin RawExceptionTexts

(* C15 -- the final answer is only ever the text of a response with zero
   ToolCallParts, and the text flushed as the interim step of the last
   response is never the final answer as well. *)
C15_NarrationIsNotTheAnswer ==
    pc \in {"render", "done"} /\ final_answer_text # <<>> =>
        /\ ZeroToolCalls(response)
        /\ \A k \in 1..Len(steps_shown) : steps_shown[k] # final_answer_text

(* C16 -- when no send has failed and the response is one with zero
   ToolCallParts, the answer section is eventually rendered, exactly once;
   by then the sends made are 1 plus the responses that held a valid
   ToolCallPart, and the Executor calls made are as many as the valid
   ToolCallParts received. *)
C16_TerminatesWithExactCounts ==
    /\ [](ZeroToolCalls(response) /\ ~send_failed =>
            /\ sends = 1 + tool_rounds
            /\ calls_owed = 0
            /\ Len(answers_shown) = (IF pc = "done" THEN 1 ELSE 0)
            /\ errors_shown = <<>>)
    /\ (ZeroToolCalls(response) /\ ~send_failed) ~>
            (pc = "done" /\ Len(answers_shown) = 1)

\* two tool rounds, then the terminal response, rendered
C16_Witness ==
    /\ pc = "done"
    /\ ZeroToolCalls(response)
    /\ sends = 3
    /\ tool_rounds = 2
    /\ calls_owed = 0
    /\ Len(answers_shown) = 1

(* C17 -- for a terminal response whose text is empty or only whitespace
   the final answer stays empty; otherwise it is the text unchanged, not
   stripped; and the re-extraction after the loop never changes a final
   answer that the loop has set. *)
C17_BlankStaysEmptyElseUnchanged ==
    /\ [](ZeroToolCalls(response) /\ LoopExited =>
            /\ (~HasNonSpace(Narration(response)) => final_answer_text = <<>>)
            /\ (HasNonSpace(Narration(response)) =>
                   final_answer_text = Narration(response)))
    /\ [][pc = "post" /\ final_answer_text # <<>> =>
            final_answer_text' = final_answer_text]_vars

\* a terminal text ending in whitespace was rendered with its whitespace
C17_Witness ==
    /\ pc = "done"
    /\ ZeroToolCalls(response)
    /\ Narration(response) = <<"a", " ">>
    /\ answers_shown = << <<"a", " ">> >>

(* C18 -- the narration buffer is empty in every state between loop passes
   and after the loop, and what is on display for a response is exactly its
   own non-blank narration, once: nothing of an earlier response, and
   nothing at all when the narration is blank. *)
C18_NarrationBufferEmpty ==
    /\ step_content = <<>>
    /\ steps_shown =
           IF HasNarration(response) THEN <<Narration(response)>> ELSE <<>>

\* a second narrated tool response follows a first one: only its own text shows
C18_Witness ==
    /\ sends = 3
    /\ AtForEnd
    /\ Narration(response) = <<"a">>
    /\ steps_shown = << <<"a">> >>
    /\ step_content = <<>>
    /\ tool_rounds = 3

(* C19 -- every Session send after the first carries one function response
   for each ToolCallPart of the response that triggered it, and at least
   one. *)
C19_EveryCallAnswered ==
    [][SendStep /\ sends >= 1 =>
          /\ function_responses # <<>>
          /\ Len(function_responses) = ToolCallCount(response.parts)]_vars

====
